---------------------------- MODULE Spec2Model ----------------------------
(***************************************************************************)
(* NoteCraft draft persistence: the single-draft store (useLocalDraft,     *)
(* with demo seeding and a 500 ms trailing debounce), the multi-draft      *)
(* index store (useLocalDrafts) and the editor page that saves into it     *)
(* (DraftPage), all over the browser's localStorage.                       *)
(*                                                                         *)
(* Strings that the code only stores and compares are TLA+ strings.        *)
(* Editor content, which the code scans character by character, is a       *)
(* sequence of one-character strings.                                      *)
(***************************************************************************)
EXTENDS Integers, Sequences, FiniteSets, TLC

(***************************************************************************)
(* Bounds of the model.                                                    *)
(***************************************************************************)
MaxSources == 1         \* longest source list the single-draft store is given
MaxTimers == 3          \* timer handles the runtime hands out
MaxBurst == 2           \* the burst counters saturate here
MaxDrafts == 2          \* longest draft collection
MaxWriteFailures == 1   \* failing writes of the draft collection in one run
MaxNow == 1             \* the clock of the multi-draft store stops here
MaxPageSources == 2     \* longest source list the editor page is given

(***************************************************************************)
(* Program constants.                                                      *)
(***************************************************************************)
STORAGE_KEY == "notecraft-draft"
VISITED_KEY == "notecraft-visited"
DRAFTS_STORAGE_KEY == "notecraft-drafts-v2"
DEBOUNCE_MS == 500

Keys == {STORAGE_KEY, VISITED_KEY, DRAFTS_STORAGE_KEY}

Undefined == "undefined"

(***************************************************************************)
(* Values: sources, drafts, editor content.                                *)
(***************************************************************************)
SrcA == [id |-> "a", type |-> "link", title |-> "example.com",
         url |-> "https://example.com", content |-> Undefined]
SrcB == [id |-> "b", type |-> "text", title |-> "note",
         url |-> Undefined, content |-> "pasted text"]
DEMO_SOURCES == << [id |-> "demo-src-1", type |-> "link",
                    title |-> "AI-Augmented Design: A New Framework",
                    url |-> "https://nngroup.com/articles/ai-augmented-design",
                    content |-> Undefined] >>

SourcePool == {SrcA, SrcB}
SourceIds == {s.id : s \in SourcePool}

EmptyContent == << >>
HelloWorld == <<"<","p",">","H","e","l","l","o"," ","w","o","r","l","d","<","/","p",">">>
DemoContent == <<"<","p",">","T","h","i","s"," ","w","e","e","k","<","/","p",">">>

Titles == {"Issue 1"}
Contents == {HelloWorld}

DEFAULT_DRAFT == [title |-> "", content |-> EmptyContent, sources |-> << >>]
DEMO_DRAFT == [title |-> "The AI-Augmented Designer", content |-> DemoContent,
               sources |-> DEMO_SOURCES]
\* a draft an earlier session left in storage
PersistedDraft == [title |-> "Issue 1", content |-> HelloWorld, sources |-> <<SrcA>>]

(***************************************************************************)
(* localStorage: each key is absent or holds a string.  A string is either *)
(* the JSON text of a value (kind "json") or some other text (kind "raw"). *)
(***************************************************************************)
Absent == [kind |-> "absent", val |-> "null"]
Raw(s) == [kind |-> "raw", val |-> s]
JSON_stringify(v) == [kind |-> "json", val |-> v]
JSON_parseThrows(b) == b.kind = "raw"
JSON_parse(b) == b.val

CorruptBlob == Raw("{not json")
VisitedMark == Raw("true")

getItemIsNull(st, k) == st[k].kind = "absent"
setItem(st, k, b) == [st EXCEPT ![k] = b]
removeItem(st, k) == [st EXCEPT ![k] = Absent]

VARIABLES
  storage,          \* localStorage
  now,              \* wall clock, ms
  draft,            \* useLocalDraft: React state `draft`
  isLoaded,         \* useLocalDraft: React state `isLoaded`
  isDemoMode,       \* useLocalDraft: React state `isDemoMode`
  captured,         \* the `draft` the mutation callbacks closed over at the last render
  saveTimeoutRef,   \* saveTimeoutRef.current: a timer handle, or 0 for null
  timers,           \* timers set by setTimeout and not yet fired or cleared
  demoParam,        \* the URL carries ?demo
  hasInitialDraft,  \* the caller passed demo content as initialDraft
  raised,           \* the exception that escaped to the caller, "none" if none
  last,             \* history: the operation that ran last, whether its write failed,
                    \*   how many entries it found of the id it names (hits), and for the load
                    \*   effect what it found in storage and the URL
  burst,            \* history: the mutations and writes of the current debounce burst
  drafts,           \* useLocalDrafts: React state `drafts`
  draftsLoaded,     \* useLocalDrafts: React state `isLoaded`
  got,              \* what the last getDraft call returned, and whether it could read
  wfails,           \* history: the writes of the draft collection that failed so far
  pageDraft,        \* DraftPage: React state `draft`, null until the mount effect finds it
  pageLoaded,       \* DraftPage: React state `isLoaded`
  saveDebounceRef,  \* DraftPage: saveDebounceRef.current, a timer handle, or 0 for null
  pageTimers        \* timers set by DraftPage.persistDraft and not yet fired or cleared

singleVars == <<draft, isLoaded, isDemoMode, captured, saveTimeoutRef, timers,
                demoParam, hasInitialDraft, raised, burst>>
multiVars == <<drafts, draftsLoaded, got, wfails>>
pageVars == <<pageDraft, pageLoaded, saveDebounceRef, pageTimers>>

(***************************************************************************)
(* Small helpers.                                                          *)
(***************************************************************************)
NullRef == 0
NotFound == [found |-> FALSE, val |-> "null"]
Found(d) == [found |-> TRUE, val |-> d]
NotAsked == [id |-> "", res |-> NotFound, rok |-> TRUE]
TimerIds == 1..MaxTimers
Min(a, b) == IF a < b THEN a ELSE b
Truthy(b) == b.kind # "absent" /\ ~(b.kind = "raw" /\ b.val = "")
Max(a, b) == IF a > b THEN a ELSE b
TimerDue == \E t \in timers : t.left = 0
\* the clock is watched at half the debounce delay
TickMs == DEBOUNCE_MS \div 2
Ev(op, failed) == [op |-> op, failed |-> failed, blob |-> Absent,
                   visited |-> FALSE, demo |-> FALSE, rok |-> TRUE, ret |-> "",
                   hits |-> 0]
FreeHandles == {h \in TimerIds : h # saveTimeoutRef /\ \A t \in timers : t.id # h}
Count(list, id) == Cardinality({i \in 1..Len(list) : list[i].id = id})

(***************************************************************************)
(* useLocalDraft: the load effect, as a function of what it reads.         *)
(* rok: the getItem calls return (otherwise they throw);                   *)
(* wok: the setItem call returns (otherwise it throws).                    *)
(***************************************************************************)
\* line 101
ShouldDemo_FirstVisitOnly(hasUrlDemoParam, hasVisited, hasSavedDraft) ==
  ~hasVisited /\ ~hasSavedDraft

ShouldDemo(hasUrlDemoParam, hasVisited, hasSavedDraft) ==
  hasUrlDemoParam \/ (~hasVisited /\ ~hasSavedDraft)

\* line 117
UseDemo_DemoWins(loadedFromStorage, shouldDemo, hasInit) ==
  shouldDemo /\ hasInit

UseDemo(loadedFromStorage, shouldDemo, hasInit) ==
  ~loadedFromStorage /\ shouldDemo /\ hasInit

\* line 123
MarkVisited_Always(hasUrlDemoParam, hasVisited) ==
  ~hasVisited

\* the marker is never written
MarkVisited_Never(hasUrlDemoParam, hasVisited) ==
  FALSE

MarkVisited(hasUrlDemoParam, hasVisited) ==
  ~hasUrlDemoParam /\ ~hasVisited

LoadEffect(st, demo, hasInit, rok, wok) ==
  IF ~rok
  THEN \* the getItem of line 99 is outside any try: the effect ends there
       [draft |-> DEFAULT_DRAFT, isDemoMode |-> FALSE, isLoaded |-> FALSE,
        storage |-> st, raised |-> "getItem"]
  ELSE
    LET hasUrlDemoParam == demo
        hasVisited == ~getItemIsNull(st, VISITED_KEY)
        hasSavedDraft == ~getItemIsNull(st, STORAGE_KEY)
        shouldDemo == ShouldDemo(hasUrlDemoParam, hasVisited, hasSavedDraft)
        saved == st[STORAGE_KEY]
        loadedFromStorage == Truthy(saved) /\ ~JSON_parseThrows(saved)
        d1 == IF loadedFromStorage THEN JSON_parse(saved) ELSE DEFAULT_DRAFT
        useDemo == UseDemo(loadedFromStorage, shouldDemo, hasInit)
        d2 == IF useDemo THEN DEMO_DRAFT ELSE d1
        mark == MarkVisited(hasUrlDemoParam, hasVisited)
    IN  IF mark /\ ~wok
        THEN \* the setItem of line 124 is outside any try: setIsLoaded is not reached
             [draft |-> d2, isDemoMode |-> useDemo, isLoaded |-> FALSE,
              storage |-> st, raised |-> "setItem"]
        ELSE [draft |-> d2, isDemoMode |-> useDemo, isLoaded |-> TRUE,
              storage |-> IF mark THEN setItem(st, VISITED_KEY, VisitedMark) ELSE st,
              raised |-> "none"]

Load ==
  /\ ~isLoaded /\ raised = "none"
  /\ \E rok \in BOOLEAN, wok \in BOOLEAN :
       LET r == LoadEffect(storage, demoParam, hasInitialDraft, rok, wok) IN
       /\ draft' = r.draft
       /\ captured' = r.draft
       /\ isDemoMode' = r.isDemoMode
       /\ isLoaded' = r.isLoaded
       /\ storage' = r.storage
       /\ raised' = r.raised
       /\ last' = [op |-> "load", failed |-> (r.raised = "setItem"),
                   blob |-> storage[STORAGE_KEY],
                   visited |-> ~getItemIsNull(storage, VISITED_KEY),
                   demo |-> demoParam, rok |-> rok, ret |-> "", hits |-> 0]
  /\ UNCHANGED <<now, saveTimeoutRef, timers, demoParam, hasInitialDraft, burst>>
  /\ UNCHANGED <<multiVars, pageVars>>

(***************************************************************************)
(* useLocalDraft.saveDraft: set the state, cancel the pending timer, set a *)
(* new one that will write newDraft.                                       *)
(***************************************************************************)
NoBurst == [muts |-> 0, writes |-> 0, lastWrite |-> Absent, afterLast |-> DEFAULT_DRAFT]

\* history: a burst starts at a mutation made while no write is pending
NoteMutation(newDraft) ==
  burst' = IF timers = {}
           THEN [muts |-> 1, writes |-> 0, lastWrite |-> Absent, afterLast |-> newDraft]
           ELSE [burst EXCEPT !.muts = Min(burst.muts + 1, MaxBurst),
                              !.afterLast = newDraft]

saveDraft_NoCancel(newDraft) ==
  /\ draft' = newDraft
  /\ FreeHandles # {}
  /\ LET h == CHOOSE x \in FreeHandles : \A y \in FreeHandles : x <= y IN
       /\ timers' = timers \cup {[id |-> h, left |-> DEBOUNCE_MS, newDraft |-> newDraft]}
       /\ saveTimeoutRef' = h
  /\ NoteMutation(newDraft)

saveDraft(newDraft) ==
  /\ draft' = newDraft
  /\ FreeHandles # {}
  /\ LET h == CHOOSE x \in FreeHandles : \A y \in FreeHandles : x <= y
         kept == IF saveTimeoutRef # NullRef
                 THEN {t \in timers : t.id # saveTimeoutRef}
                 ELSE timers
     IN
       /\ timers' = kept \cup {[id |-> h, left |-> DEBOUNCE_MS, newDraft |-> newDraft]}
       /\ saveTimeoutRef' = h
  /\ NoteMutation(newDraft)

\* the timer callback: one guarded setItem
TimerFires ==
  /\ \E t \in timers :
       /\ t.left = 0
       /\ timers' = timers \ {t}
       /\ \E wok \in BOOLEAN :
            /\ storage' = IF wok
                          THEN setItem(storage, STORAGE_KEY, JSON_stringify(t.newDraft))
                          ELSE storage
            /\ last' = Ev("fire", ~wok)
       /\ burst' = [burst EXCEPT !.writes = Min(burst.writes + 1, MaxBurst),
                                 !.lastWrite = JSON_stringify(t.newDraft)]
  /\ UNCHANGED <<now, draft, isLoaded, isDemoMode, captured, saveTimeoutRef,
                 demoParam, hasInitialDraft, raised>>
  /\ UNCHANGED <<multiVars, pageVars>>

CanCall == isLoaded /\ raised = "none" /\ ~TimerDue

\* the edit also switches the demo flag off
updateTitle_EndsDemo(title) ==
  /\ CanCall
  /\ saveDraft([captured EXCEPT !.title = title])
  /\ isDemoMode' = FALSE
  /\ last' = Ev("mutate", FALSE)
  /\ UNCHANGED <<storage, now, isLoaded, captured, demoParam,
                 hasInitialDraft, raised>>
  /\ UNCHANGED <<multiVars, pageVars>>

updateTitle(title) ==
  /\ CanCall
  /\ saveDraft([captured EXCEPT !.title = title])
  /\ last' = Ev("mutate", FALSE)
  /\ UNCHANGED <<storage, now, isLoaded, isDemoMode, captured, demoParam,
                 hasInitialDraft, raised>>
  /\ UNCHANGED <<multiVars, pageVars>>

updateContent(content) ==
  /\ CanCall
  /\ saveDraft([captured EXCEPT !.content = content])
  /\ last' = Ev("mutate", FALSE)
  /\ UNCHANGED <<storage, now, isLoaded, isDemoMode, captured, demoParam,
                 hasInitialDraft, raised>>
  /\ UNCHANGED <<multiVars, pageVars>>

addSource(source) ==
  /\ CanCall
  /\ Len(captured.sources) < MaxSources
  /\ LET newSources == Append(captured.sources, source) IN
       saveDraft([captured EXCEPT !.sources = newSources])
  /\ last' = Ev("mutate", FALSE)
  /\ UNCHANGED <<storage, now, isLoaded, isDemoMode, captured, demoParam,
                 hasInitialDraft, raised>>
  /\ UNCHANGED <<multiVars, pageVars>>

removeSource(id) ==
  /\ CanCall
  /\ LET Keep(s) == s.id # id
         newSources == SelectSeq(captured.sources, Keep) IN
       saveDraft([captured EXCEPT !.sources = newSources])
  /\ last' = Ev("mutate", FALSE)
  /\ UNCHANGED <<storage, now, isLoaded, isDemoMode, captured, demoParam,
                 hasInitialDraft, raised>>
  /\ UNCHANGED <<multiVars, pageVars>>

\* the state is set and the key removed, the pending timer is left alone
clearDraft_KeepsTimer ==
  /\ CanCall
  /\ draft' = DEFAULT_DRAFT
  /\ NoteMutation(DEFAULT_DRAFT)
  /\ storage' = removeItem(storage, STORAGE_KEY)
  /\ last' = Ev("clearDraft", FALSE)
  /\ UNCHANGED <<now, isLoaded, isDemoMode, captured, saveTimeoutRef, timers,
                 demoParam, hasInitialDraft, raised>>
  /\ UNCHANGED <<multiVars, pageVars>>

clearDraft ==
  /\ CanCall
  /\ saveDraft(DEFAULT_DRAFT)
  /\ storage' = removeItem(storage, STORAGE_KEY)
  /\ last' = Ev("clearDraft", FALSE)
  /\ UNCHANGED <<now, isLoaded, isDemoMode, captured, demoParam,
                 hasInitialDraft, raised>>
  /\ UNCHANGED <<multiVars, pageVars>>

\* the erase left to the debounced write instead of removeItem
dismissDemo_Debounced ==
  /\ CanCall
  /\ isDemoMode' = FALSE
  /\ saveDraft(DEFAULT_DRAFT)
  /\ demoParam' = FALSE
  /\ last' = [Ev("dismissDemo", FALSE) EXCEPT !.blob = storage[STORAGE_KEY]]
  /\ UNCHANGED <<storage, now, isLoaded, captured, hasInitialDraft, raised>>
  /\ UNCHANGED <<multiVars, pageVars>>

dismissDemo ==
  /\ CanCall
  /\ isDemoMode' = FALSE
  /\ draft' = DEFAULT_DRAFT
  /\ storage' = removeItem(storage, STORAGE_KEY)
  /\ demoParam' = FALSE
  /\ last' = [Ev("dismissDemo", FALSE) EXCEPT !.blob = storage[STORAGE_KEY]]
  /\ UNCHANGED <<now, isLoaded, captured, saveTimeoutRef, timers,
                 hasInitialDraft, raised, burst>>
  /\ UNCHANGED <<multiVars, pageVars>>

\* React renders again: the callbacks are rebuilt over the current draft
Render ==
  /\ isLoaded /\ raised = "none"
  /\ captured # draft
  /\ captured' = draft
  /\ UNCHANGED <<storage, now, draft, isLoaded, isDemoMode, saveTimeoutRef, timers,
                 demoParam, hasInitialDraft, raised, last, burst>>
  /\ UNCHANGED <<multiVars, pageVars>>

\* time passes; a timer that is due fires before anything else happens
Tick ==
  /\ timers # {} /\ ~TimerDue
  /\ timers' = {[t EXCEPT !.left = Max(0, t.left - TickMs)] : t \in timers}
  /\ UNCHANGED <<storage, now, draft, isLoaded, isDemoMode, captured, saveTimeoutRef,
                 demoParam, hasInitialDraft, raised, last, burst>>
  /\ UNCHANGED <<multiVars, pageVars>>

\* the page is left and opened again: React state and timers are gone, storage stays
Reload ==
  /\ isLoaded \/ raised # "none"
  /\ draft' = DEFAULT_DRAFT
  /\ captured' = DEFAULT_DRAFT
  /\ isLoaded' = FALSE
  /\ isDemoMode' = FALSE
  /\ saveTimeoutRef' = NullRef
  /\ timers' = {}
  /\ raised' = "none"
  /\ \E p \in BOOLEAN : demoParam' = p
  /\ last' = Ev("reload", FALSE)
  /\ burst' = NoBurst
  /\ UNCHANGED <<storage, now, hasInitialDraft>>
  /\ UNCHANGED <<multiVars, pageVars>>

vars == <<storage, now, last, singleVars, multiVars, pageVars>>

InitStorage ==
  {[k \in Keys |-> CASE k = STORAGE_KEY -> b
                     [] k = VISITED_KEY -> v
                     [] OTHER -> Absent] :
     b \in {Absent, CorruptBlob, JSON_stringify(PersistedDraft)},
     v \in {Absent, VisitedMark}}

Init ==
  /\ storage \in InitStorage
  /\ now = 0
  /\ draft = DEFAULT_DRAFT
  /\ captured = DEFAULT_DRAFT
  /\ isLoaded = FALSE
  /\ isDemoMode = FALSE
  /\ saveTimeoutRef = NullRef
  /\ timers = {}
  /\ demoParam \in BOOLEAN
  /\ hasInitialDraft \in BOOLEAN
  /\ raised = "none"
  /\ last = Ev("init", FALSE)
  /\ burst = NoBurst
  /\ drafts = << >> /\ draftsLoaded = FALSE /\ got = NotAsked /\ wfails = 0
  /\ pageDraft = NotFound /\ pageLoaded = FALSE
  /\ saveDebounceRef = NullRef /\ pageTimers = {}

NextDraft ==
  \/ Load
  \/ \E t \in Titles : updateTitle(t)
  \/ \E c \in Contents : updateContent(c)
  \/ \E s \in SourcePool : addSource(s)
  \/ \E id \in SourceIds : removeSource(id)
  \/ clearDraft
  \/ dismissDemo
  \/ TimerFires
  \/ Render
  \/ Tick
  \/ Reload

SpecDraft == Init /\ [][NextDraft]_vars

\* the same store on pages that are never opened with ?demo
InitVisits == Init /\ ~demoParam

NextVisits ==
  \/ Load
  \/ \E t \in Titles : updateTitle(t)
  \/ \E c \in Contents : updateContent(c)
  \/ \E s \in SourcePool : addSource(s)
  \/ \E id \in SourceIds : removeSource(id)
  \/ clearDraft
  \/ dismissDemo
  \/ TimerFires
  \/ Render
  \/ Tick
  \/ Reload /\ ~demoParam'

SpecVisits == InitVisits /\ [][NextVisits]_vars

(***************************************************************************)
(* Properties of the single-draft store.                                   *)
(***************************************************************************)
JustLoaded == last.op = "load"
\* storage as the load effect found it, with the single-draft key absent
EnvWithoutBlob ==
  [k \in Keys |-> CASE k = STORAGE_KEY -> Absent
                    [] k = VISITED_KEY -> IF last.visited THEN VisitedMark ELSE Absent
                    [] OTHER -> storage[k]]

\* C1: when a burst of mutations, each made while the previous one's write was
\* still pending, has settled, exactly one setItem on the single-draft key was
\* made for it, with the draft as it stood after the last mutation; unless
\* that setItem threw, the key holds this value when the timer callback ends.
C1_DebounceCoalescing ==
  (burst.muts >= 1 /\ timers = {}) =>
     /\ burst.writes = 1
     /\ burst.lastWrite.kind = "json"
     /\ burst.lastWrite.val = burst.afterLast
     /\ (last.op = "fire" /\ ~last.failed) => storage[STORAGE_KEY] = burst.lastWrite

C1_Witness ==
  /\ last.op = "fire" /\ ~last.failed
  /\ burst.muts >= 2 /\ burst.writes = 1 /\ timers = {}
  /\ storage[STORAGE_KEY] = JSON_stringify(draft)

\* C2: activation that reads a persisted draft ends with that draft in memory
\* and the demo flag off, whatever the URL and the visited marker say.
C2_PersistedDraftWins ==
  (JustLoaded /\ last.rok /\ last.blob.kind = "json") =>
     /\ draft = JSON_parse(last.blob)
     /\ ~isDemoMode

C2_Witness ==
  /\ JustLoaded /\ isLoaded /\ last.blob.kind = "json"
  /\ last.demo /\ ~last.visited /\ hasInitialDraft
  /\ draft = PersistedDraft /\ ~isDemoMode

\* C3: with demo content supplied and no single-draft key, activation loads the
\* demo draft with the flag on exactly when there is no visited marker or the
\* URL asks for the demo, and the empty draft with the flag off otherwise.
C3_DemoIffFirstVisitOrRequest ==
  (JustLoaded /\ last.rok /\ hasInitialDraft /\ last.blob.kind = "absent") =>
     IF ~last.visited \/ last.demo
     THEN isDemoMode /\ draft = DEMO_DRAFT
     ELSE ~isDemoMode /\ draft = DEFAULT_DRAFT

C3_Witness ==
  /\ JustLoaded /\ isLoaded /\ hasInitialDraft /\ last.blob.kind = "absent"
  /\ last.visited /\ last.demo /\ isDemoMode /\ draft = DEMO_DRAFT

\* C4 as stated: every activation that ends in the demo state leaves the
\* visited marker in storage.
C4_DemoMarksVisited ==
  (JustLoaded /\ isLoaded /\ isDemoMode) => ~getItemIsNull(storage, VISITED_KEY)

\* C4 amended: an activation that ends in the demo state leaves the visited
\* marker in storage when the URL carries no demo request; with a demo request
\* it leaves the marker as it found it.
C4_DemoMarksVisitedUnlessRequested ==
  (JustLoaded /\ isLoaded /\ isDemoMode) =>
     IF last.demo
     THEN ~getItemIsNull(storage, VISITED_KEY) = last.visited
     ELSE ~getItemIsNull(storage, VISITED_KEY)

C4_Witness ==
  /\ JustLoaded /\ isLoaded /\ isDemoMode
  /\ ~last.demo /\ ~last.visited
  /\ storage[VISITED_KEY] = VisitedMark

\* C5: activation over a blob that does not parse ends with the draft and the
\* demo flag that activation over no blob ends with, the marker and the URL
\* being the same.
C5_CorruptAsAbsent ==
  (JustLoaded /\ last.rok /\ last.blob.kind = "raw") =>
     LET r == LoadEffect(EnvWithoutBlob, last.demo, hasInitialDraft, TRUE, TRUE) IN
     /\ draft = r.draft
     /\ isDemoMode = r.isDemoMode

\* C6: a load whose read throws or finds malformed JSON raises nothing: the
\* single-draft store ends loaded, holding the demo or the empty draft, and
\* the multi-draft store ends loaded with an empty collection.
C6_LoadReadFailureNotRaised ==
  /\ (JustLoaded /\ ~last.failed /\ (~last.rok \/ last.blob.kind = "raw")) =>
        /\ raised = "none"
        /\ isLoaded
        /\ draft \in {DEMO_DRAFT, DEFAULT_DRAFT}
  /\ (last.op = "loadAll" /\ (~last.rok \/ last.blob.kind = "raw")) =>
        /\ raised = "none"
        /\ draftsLoaded
        /\ drafts = << >>

\* C7: an operation whose setItem fails raises nothing, and the load effect
\* still ends loaded; a failed debounced write leaves no timer behind.
C7_WriteFailureSwallowed ==
  last.failed =>
     /\ raised = "none"
     /\ (last.op = "load" => isLoaded)
     /\ (last.op = "fire" => timers = {})

\* C8: right after dismissDemo the demo flag is off, the draft in memory is
\* the empty draft and the single-draft key is absent.
C8_DismissDemoErasesNow ==
  last.op = "dismissDemo" =>
     /\ ~isDemoMode
     /\ draft = DEFAULT_DRAFT
     /\ getItemIsNull(storage, STORAGE_KEY)

C8_Witness ==
  /\ last.op = "dismissDemo" /\ last.blob.kind = "json"
  /\ timers # {}
  /\ getItemIsNull(storage, STORAGE_KEY) /\ draft = DEFAULT_DRAFT

(***************************************************************************)
(* useLocalDrafts: content metrics.                                        *)
(***************************************************************************)
EXCERPT_MAX == 80
\* the one character U+2026
Ellipsis == "ELLIPSIS"
\* what \s matches, of the characters a content is made of here
Spaces == {" ", "\n", "\t"}
IsSpace(c) == c \in Spaces

\* the first position of t at or after i that holds a character of cs (or,
\* with ~isIn, a character outside cs); 0 if there is none
IndexOf(t, i, cs, isIn) ==
  IF \E j \in i..Len(t) : (t[j] \in cs) = isIn
  THEN CHOOSE j \in i..Len(t) :
         (t[j] \in cs) = isIn /\ \A m \in i..(j-1) : (t[m] \in cs) # isIn
  ELSE 0

\* html.replace(/<[^>]*>/g, " "): the first "<" with a ">" somewhere after it
\* is replaced, up to the first such ">", by one space; the search goes on
\* behind it
RECURSIVE ReplaceTags(_)
ReplaceTags(h) ==
  LET s == IndexOf(h, 1, {"<"}, TRUE)
      e == IndexOf(h, s + 1, {">"}, TRUE)
  IN IF s = 0 \/ e = 0 THEN h
     ELSE SubSeq(h, 1, s - 1) \o <<" ">> \o ReplaceTags(SubSeq(h, e + 1, Len(h)))

\* .replace(/\s+/g, " "): every maximal run of white space becomes one space
RECURSIVE CollapseSpaces(_)
CollapseSpaces(t) ==
  LET s == IndexOf(t, 1, Spaces, TRUE)
      e == IndexOf(t, s + 1, Spaces, FALSE)
  IN IF s = 0 THEN t
     ELSE IF e = 0 THEN SubSeq(t, 1, s - 1) \o <<" ">>
     ELSE SubSeq(t, 1, s - 1) \o <<" ">> \o CollapseSpaces(SubSeq(t, e, Len(t)))

\* .trim()
RECURSIVE TrimLeft(_)
TrimLeft(t) ==
  IF t # << >> /\ IsSpace(Head(t)) THEN TrimLeft(Tail(t)) ELSE t
RECURSIVE TrimRight(_)
TrimRight(t) ==
  IF t # << >> /\ IsSpace(t[Len(t)]) THEN TrimRight(SubSeq(t, 1, Len(t) - 1)) ELSE t
Trim(t) == TrimRight(TrimLeft(t))

stripHtml(html) == Trim(CollapseSpaces(ReplaceTags(html)))

\* text.split(/\s+/).filter(Boolean).length: the maximal runs of non-space,
\* one for every position where such a run ends
CountTokens(t) ==
  Cardinality({i \in 1..Len(t) :
                 ~IsSpace(t[i]) /\ (i = Len(t) \/ IsSpace(t[i + 1]))})

\* tags are not stripped before the tokens are counted
countWords_NoStrip(html) ==
  IF html = << >> THEN 0 ELSE CountTokens(html)

countWords(html) ==
  LET text == stripHtml(html) IN
  IF text = << >> THEN 0 ELSE CountTokens(text)

\* the text is cut and no ellipsis is put after it
makeExcerpt_NoEllipsis(html) ==
  LET text == stripHtml(html) IN
  IF Len(text) > EXCERPT_MAX THEN SubSeq(text, 1, EXCERPT_MAX) ELSE text

makeExcerpt(html) ==
  LET text == stripHtml(html) IN
  IF Len(text) > EXCERPT_MAX
  THEN SubSeq(text, 1, EXCERPT_MAX) \o <<Ellipsis>>
  ELSE text

(***************************************************************************)
(* useLocalDrafts: storage access.                                         *)
(***************************************************************************)
\* rok: getItem returns (otherwise it throws, inside the try)
loadAll(st, rok) ==
  IF ~rok THEN << >>
  ELSE LET raw == st[DRAFTS_STORAGE_KEY] IN
       IF ~Truthy(raw) THEN << >>
       ELSE IF JSON_parseThrows(raw) THEN << >>
       ELSE JSON_parse(raw)

\* nothing is written
saveAll_Dropped(st, list, wok) == st

\* wok: setItem returns (otherwise it throws, inside the try)
saveAll(st, list, wok) ==
  IF wok THEN setItem(st, DRAFTS_STORAGE_KEY, JSON_stringify(list)) ELSE st

\* Math.random().toString(36).substring(2, 9): some string, nothing more is known
GeneratedIds == {"k3f9x2a", "p0q8z1m"}

\* prev.findIndex((d) => d.id === id): 0 stands for -1
findIndex(list, id) ==
  IF \E i \in 1..Len(list) : list[i].id = id
  THEN CHOOSE i \in 1..Len(list) : list[i].id = id /\ \A j \in 1..(i-1) : list[j].id # id
  ELSE 0

\* all.find((d) => d.id === id) ?? null
find(list, id) ==
  LET i == findIndex(list, id) IN IF i = 0 THEN NotFound ELSE Found(list[i])

\* updated.sort((a, b) => b.updatedAt - a.updatedAt): stable, most recent first
InsertByRecent(sorted, x) ==
  LET n == Cardinality({i \in 1..Len(sorted) : sorted[i].updatedAt >= x.updatedAt}) IN
  SubSeq(sorted, 1, n) \o <<x>> \o SubSeq(sorted, n + 1, Len(sorted))
RECURSIVE SortFrom(_, _)
SortFrom(sorted, rest) ==
  IF rest = << >> THEN sorted
  ELSE SortFrom(InsertByRecent(sorted, Head(rest)), Tail(rest))
\* the list is left in the order it has
sortByRecent_AsIs(list) == list

sortByRecent(list) == SortFrom(<< >>, list)

\* the answer is taken from the list in memory
getDraft_FromMemory(st, id, rok) == find(drafts, id)

getDraft(st, id, rok) == find(loadAll(st, rok), id)

(***************************************************************************)
(* useLocalDrafts: the operations.                                         *)
(***************************************************************************)
NewDraft(id) ==
  [id |-> id, title |-> "", content |-> EmptyContent, sources |-> << >>,
   updatedAt |-> now, wordCount |-> 0, sourceCount |-> 0, excerpt |-> << >>]

\* what the editor page hands to saveDraft: a draft it got from getDraft, edited;
\* its derived fields are those of the draft as created
SaveInputs ==
  {[id |-> i, title |-> t, content |-> c, sources |-> ss,
    updatedAt |-> 0, wordCount |-> 0, sourceCount |-> 0, excerpt |-> << >>] :
     i \in GeneratedIds, t \in Titles, c \in Contents, ss \in {<<SrcA>>}}

UnchangedSingle == UNCHANGED singleVars

\* the outcomes a setItem of the collection can have
WriteOutcomes == IF wfails < MaxWriteFailures THEN BOOLEAN ELSE {TRUE}
NoteWrite(wok) == wfails' = IF wok THEN wfails ELSE wfails + 1

\* the mount effect
LoadDrafts ==
  /\ ~draftsLoaded
  /\ \E rok \in BOOLEAN :
       /\ drafts' = loadAll(storage, rok)
       /\ last' = [Ev("loadAll", FALSE) EXCEPT !.rok = rok,
                                              !.blob = storage[DRAFTS_STORAGE_KEY]]
  /\ draftsLoaded' = TRUE
  /\ got' = NotAsked
  /\ UNCHANGED <<storage, now, wfails>>
  /\ UnchangedSingle
  /\ UNCHANGED pageVars

\* the list is not written back
createDraft_NoSave ==
  /\ draftsLoaded /\ Len(drafts) < MaxDrafts
  /\ \E id \in GeneratedIds :
       /\ drafts' = <<NewDraft(id)>> \o drafts
       /\ last' = [Ev("createDraft", FALSE) EXCEPT !.ret = id]
  /\ got' = NotAsked
  /\ UNCHANGED <<storage, now, draftsLoaded, wfails>>
  /\ UnchangedSingle
  /\ UNCHANGED pageVars

createDraft ==
  /\ draftsLoaded /\ Len(drafts) < MaxDrafts
  /\ \E id \in GeneratedIds, wok \in WriteOutcomes :
       LET updated == <<NewDraft(id)>> \o drafts IN
       /\ NoteWrite(wok)
       /\ storage' = saveAll(storage, updated, wok)
       /\ drafts' = updated
       /\ last' = [Ev("createDraft", ~wok) EXCEPT !.ret = id]
  /\ got' = NotAsked
  /\ UNCHANGED <<now, draftsLoaded>>
  /\ UnchangedSingle
  /\ UNCHANGED pageVars

\* the filtered list is not written back
deleteDraft_NoSave(id) ==
  /\ draftsLoaded
  /\ LET Keep(d) == d.id # id IN drafts' = SelectSeq(drafts, Keep)
  /\ last' = [Ev("deleteDraft", FALSE) EXCEPT !.ret = id,
                                              !.hits = Count(drafts, id)]
  /\ got' = NotAsked
  /\ UNCHANGED <<storage, now, draftsLoaded, wfails>>
  /\ UnchangedSingle
  /\ UNCHANGED pageVars

deleteDraft(id) ==
  /\ draftsLoaded
  /\ \E wok \in WriteOutcomes :
       LET Keep(d) == d.id # id
           updated == SelectSeq(drafts, Keep) IN
       /\ NoteWrite(wok)
       /\ storage' = saveAll(storage, updated, wok)
       /\ drafts' = updated
       /\ last' = [Ev("deleteDraft", ~wok) EXCEPT !.ret = id,
                                                 !.hits = Count(drafts, id)]
  /\ got' = NotAsked
  /\ UNCHANGED <<now, draftsLoaded>>
  /\ UnchangedSingle
  /\ UNCHANGED pageVars

\* the derived fields are taken from the caller
enrich_AsGiven(d, t) ==
  [d EXCEPT !.updatedAt = t]

\* lines 99-105: the derived fields and the timestamp are computed, never taken
enrich(d, t) ==
  [d EXCEPT !.updatedAt = t,
            !.wordCount = countWords(d.content),
            !.sourceCount = Len(d.sources),
            !.excerpt = makeExcerpt(d.content)]

\* the draft is put in front whether or not its id is in the list
upsert_AlwaysPrepend(prev, enriched) ==
  <<enriched>> \o prev

\* lines 107-114: replace the first entry with the id, or put the draft in front
upsert(prev, enriched) ==
  LET idx == findIndex(prev, enriched.id) IN
  IF idx >= 1 THEN [prev EXCEPT ![idx] = enriched] ELSE <<enriched>> \o prev

\* the callback itself; its caller says what becomes of the editor page
saveDraftCall(d) ==
  /\ draftsLoaded
  /\ findIndex(drafts, d.id) = 0 => Len(drafts) < MaxDrafts
  /\ \E wok \in WriteOutcomes :
       LET enriched == enrich(d, now)
           updated == sortByRecent(upsert(drafts, enriched))
       IN
       /\ NoteWrite(wok)
       /\ storage' = saveAll(storage, updated, wok)
       /\ drafts' = updated
       /\ last' = [Ev("saveDraft", ~wok) EXCEPT !.ret = d.id,
                                               !.hits = Count(drafts, d.id)]
  /\ got' = NotAsked
  /\ UNCHANGED <<now, draftsLoaded>>
  /\ UnchangedSingle

Drafts_saveDraft(d) ==
  /\ saveDraftCall(d)
  /\ UNCHANGED pageVars

GetDraft(id) ==
  /\ draftsLoaded
  /\ \E rok \in BOOLEAN :
       got' = [id |-> id, res |-> getDraft(storage, id, rok), rok |-> rok]
  /\ UNCHANGED <<storage, now, last, drafts, draftsLoaded, wfails>>
  /\ UnchangedSingle
  /\ UNCHANGED pageVars

\* Date.now() moves on
ClockTick ==
  /\ now < MaxNow
  /\ now' = now + 1
  /\ last' = Ev("tick", FALSE)
  /\ got' = NotAsked
  /\ UNCHANGED <<storage, drafts, draftsLoaded, wfails>>
  /\ UnchangedSingle
  /\ UNCHANGED pageVars

\* the page that uses the store is left and opened again
Remount ==
  /\ draftsLoaded
  /\ drafts' = << >>
  /\ draftsLoaded' = FALSE
  /\ got' = NotAsked
  /\ last' = Ev("remount", FALSE)
  /\ UNCHANGED <<storage, now, wfails>>
  /\ UnchangedSingle
  /\ UNCHANGED pageVars

InitDrafts ==
  /\ storage \in {[k \in Keys |-> IF k = DRAFTS_STORAGE_KEY THEN b ELSE Absent] :
                    b \in {Absent, CorruptBlob}}
  /\ now = 0
  /\ draft = DEFAULT_DRAFT
  /\ captured = DEFAULT_DRAFT
  /\ isLoaded = FALSE
  /\ isDemoMode = FALSE
  /\ saveTimeoutRef = NullRef
  /\ timers = {}
  /\ demoParam = FALSE
  /\ hasInitialDraft = FALSE
  /\ raised = "none"
  /\ last = Ev("init", FALSE)
  /\ burst = NoBurst
  /\ drafts = << >> /\ draftsLoaded = FALSE /\ got = NotAsked /\ wfails = 0
  /\ pageDraft = NotFound /\ pageLoaded = FALSE
  /\ saveDebounceRef = NullRef /\ pageTimers = {}

NextDrafts ==
  \/ LoadDrafts
  \/ createDraft
  \/ \E id \in GeneratedIds : deleteDraft(id)
  \/ \E d \in SaveInputs : Drafts_saveDraft(d)
  \/ \E id \in GeneratedIds : GetDraft(id)
  \/ ClockTick
  \/ Remount

SpecDrafts == InitDrafts /\ [][NextDrafts]_vars

\* the operations that change the collection: getDraft, which changes neither
\* the list nor storage, is left out
NextStore ==
  \/ LoadDrafts
  \/ createDraft
  \/ \E id \in GeneratedIds : deleteDraft(id)
  \/ \E d \in SaveInputs : Drafts_saveDraft(d)
  \/ ClockTick
  \/ Remount

SpecStore == InitDrafts /\ [][NextStore]_vars

(***************************************************************************)
(* DraftPage: the editor page of one draft.  It reads the draft with       *)
(* getDraft when it mounts and hands every edit to saveDraft after 500 ms  *)
(* without a further edit.                                                 *)
(***************************************************************************)
PAGE_DEBOUNCE_MS == 500
PageTimerDue == \E t \in pageTimers : t.left = 0
PageTickMs == PAGE_DEBOUNCE_MS \div 2
PageFreeHandles ==
  {h \in TimerIds : h # saveDebounceRef /\ \A t \in pageTimers : t.id # h}

\* the mount effect: not found means a redirect, the page stays unloaded
Page_mount(id) ==
  /\ draftsLoaded /\ ~pageLoaded
  /\ \E rok \in BOOLEAN :
       LET found == getDraft(storage, id, rok) IN
       /\ pageDraft' = found
       /\ pageLoaded' = found.found
  /\ last' = [Ev("mount", FALSE) EXCEPT !.ret = id]
  /\ UNCHANGED <<storage, now, drafts, draftsLoaded, got, wfails,
                 saveDebounceRef, pageTimers>>
  /\ UnchangedSingle

persistDraft(updated) ==
  /\ PageFreeHandles # {}
  /\ LET h == CHOOSE x \in PageFreeHandles : \A y \in PageFreeHandles : x <= y
         kept == IF saveDebounceRef # NullRef
                 THEN {t \in pageTimers : t.id # saveDebounceRef}
                 ELSE pageTimers
     IN
       /\ pageTimers' = kept \cup {[id |-> h, left |-> PAGE_DEBOUNCE_MS,
                                     newDraft |-> updated]}
       /\ saveDebounceRef' = h

\* if (!prev) return prev
PageCanCall == pageDraft.found /\ ~PageTimerDue

Page_updateTitle(title) ==
  /\ PageCanCall
  /\ LET prev == pageDraft.val
         updated == [prev EXCEPT !.title = title] IN
       /\ persistDraft(updated)
       /\ pageDraft' = Found(updated)
  /\ last' = Ev("edit", FALSE)
  /\ UNCHANGED <<storage, now, pageLoaded>>
  /\ UNCHANGED multiVars
  /\ UnchangedSingle

Page_updateContent(content) ==
  /\ PageCanCall
  /\ LET prev == pageDraft.val
         updated == [prev EXCEPT !.content = content] IN
       /\ persistDraft(updated)
       /\ pageDraft' = Found(updated)
  /\ last' = Ev("edit", FALSE)
  /\ UNCHANGED <<storage, now, pageLoaded>>
  /\ UNCHANGED multiVars
  /\ UnchangedSingle

\* the source is put in front
Page_addSource_Prepend(source) ==
  /\ PageCanCall
  /\ Len(pageDraft.val.sources) < MaxPageSources
  /\ LET prev == pageDraft.val
         updated == [prev EXCEPT !.sources = <<source>> \o prev.sources] IN
       /\ persistDraft(updated)
       /\ pageDraft' = Found(updated)
       /\ last' = [Ev("addSource", FALSE) EXCEPT !.ret = source.id]
  /\ UNCHANGED <<storage, now, pageLoaded>>
  /\ UNCHANGED multiVars
  /\ UnchangedSingle

Page_addSource(source) ==
  /\ PageCanCall
  /\ Len(pageDraft.val.sources) < MaxPageSources
  /\ LET prev == pageDraft.val
         updated == [prev EXCEPT !.sources = Append(prev.sources, source)] IN
       /\ persistDraft(updated)
       /\ pageDraft' = Found(updated)
       /\ last' = [Ev("addSource", FALSE) EXCEPT !.ret = source.id]
  /\ UNCHANGED <<storage, now, pageLoaded>>
  /\ UNCHANGED multiVars
  /\ UnchangedSingle

\* the sources of the id are kept and the others dropped
Page_removeSource_KeepsId(sourceId) ==
  /\ PageCanCall
  /\ LET prev == pageDraft.val
         Keep(s) == s.id = sourceId
         updated == [prev EXCEPT !.sources = SelectSeq(prev.sources, Keep)] IN
       /\ persistDraft(updated)
       /\ pageDraft' = Found(updated)
       /\ last' = [Ev("removeSource", FALSE) EXCEPT !.ret = sourceId,
                                                    !.hits = Count(prev.sources, sourceId)]
  /\ UNCHANGED <<storage, now, pageLoaded>>
  /\ UNCHANGED multiVars
  /\ UnchangedSingle

\* only the first source with the id is dropped
Page_removeSource_FirstOnly(sourceId) ==
  /\ PageCanCall
  /\ LET prev == pageDraft.val
         idx == findIndex(prev.sources, sourceId)
         rest == IF idx = 0 THEN prev.sources
                 ELSE SubSeq(prev.sources, 1, idx - 1)
                      \o SubSeq(prev.sources, idx + 1, Len(prev.sources))
         updated == [prev EXCEPT !.sources = rest] IN
       /\ persistDraft(updated)
       /\ pageDraft' = Found(updated)
       /\ last' = [Ev("removeSource", FALSE) EXCEPT !.ret = sourceId,
                                                    !.hits = Count(prev.sources, sourceId)]
  /\ UNCHANGED <<storage, now, pageLoaded>>
  /\ UNCHANGED multiVars
  /\ UnchangedSingle

Page_removeSource(sourceId) ==
  /\ PageCanCall
  /\ LET prev == pageDraft.val
         Keep(s) == s.id # sourceId
         updated == [prev EXCEPT !.sources = SelectSeq(prev.sources, Keep)] IN
       /\ persistDraft(updated)
       /\ pageDraft' = Found(updated)
       /\ last' = [Ev("removeSource", FALSE) EXCEPT !.ret = sourceId,
                                                    !.hits = Count(prev.sources, sourceId)]
  /\ UNCHANGED <<storage, now, pageLoaded>>
  /\ UNCHANGED multiVars
  /\ UnchangedSingle

\* the timer callback: () => saveDraft(updated)
PersistFires ==
  /\ \E t \in pageTimers :
       /\ t.left = 0
       /\ pageTimers' = pageTimers \ {t}
       /\ saveDraftCall(t.newDraft)
  /\ UNCHANGED <<pageDraft, pageLoaded, saveDebounceRef>>

\* time passes; a timer that is due fires before the page is used again
PageTick ==
  /\ pageTimers # {} /\ ~PageTimerDue
  /\ pageTimers' = {[t EXCEPT !.left = Max(0, t.left - PageTickMs)] : t \in pageTimers}
  /\ UNCHANGED <<storage, now, last, pageDraft, pageLoaded, saveDebounceRef>>
  /\ UNCHANGED multiVars
  /\ UnchangedSingle

\* a draft as createDraft stored it at time 0
CreatedDraft(id) ==
  [id |-> id, title |-> "", content |-> EmptyContent, sources |-> << >>,
   updatedAt |-> 0, wordCount |-> 0, sourceCount |-> 0, excerpt |-> << >>]

\* the page is opened on a collection that holds one draft; the writes that
\* fail have failed before, those the page causes go through
InitEditor ==
  /\ storage = [k \in Keys |-> IF k = DRAFTS_STORAGE_KEY
                               THEN JSON_stringify(<<CreatedDraft("k3f9x2a")>>)
                               ELSE Absent]
  /\ now = 0
  /\ draft = DEFAULT_DRAFT
  /\ captured = DEFAULT_DRAFT
  /\ isLoaded = FALSE
  /\ isDemoMode = FALSE
  /\ saveTimeoutRef = NullRef
  /\ timers = {}
  /\ demoParam = FALSE
  /\ hasInitialDraft = FALSE
  /\ raised = "none"
  /\ last = Ev("init", FALSE)
  /\ burst = NoBurst
  /\ drafts = << >> /\ draftsLoaded = FALSE /\ got = NotAsked
  /\ wfails = MaxWriteFailures
  /\ pageDraft = NotFound /\ pageLoaded = FALSE
  /\ saveDebounceRef = NullRef /\ pageTimers = {}

NextEditor ==
  \/ LoadDrafts
  \/ \E id \in GeneratedIds : Page_mount(id)
  \/ \E t \in Titles : Page_updateTitle(t)
  \/ \E c \in Contents : Page_updateContent(c)
  \/ \E s \in SourcePool : Page_addSource(s)
  \/ \E id \in SourceIds : Page_removeSource(id)
  \/ PersistFires
  \/ PageTick
  \/ \E id \in GeneratedIds : deleteDraft(id)

SpecEditor == InitEditor /\ [][NextEditor]_vars

(***************************************************************************)
(* The content metrics on their inputs.  The editor page holds a content   *)
(* string typed into it; the pending save hands it to saveDraft, which     *)
(* derives wordCount and excerpt from it, while the editor shows its own   *)
(* word count of the same string.                                          *)
(***************************************************************************)
MaxPieces == 3

\* the entity as innerHTML spells it
Nbsp == <<"&", "n", "b", "s", "p", ";">>
PlainText(n) == [i \in 1..n |-> "x"]
Paragraph(t) == <<"<", "p", ">">> \o t \o <<"<", "/", "p", ">">>
Pieces == {<<"<">>, <<">">>, <<" ">>, <<"\n">>, <<"a">>, Nbsp}

\* the strings made of at most n pieces
RECURSIVE Texts(_)
Texts(n) ==
  IF n = 0 THEN {<< >>}
  ELSE LET shorter == Texts(n - 1) IN
       shorter \cup {t \o p : t \in shorter, p \in Pieces}

\* short strings of every shape, and texts as long as the excerpt and longer
TextInputs ==
  Texts(MaxPieces) \cup {HelloWorld,
                         PlainText(EXCERPT_MAX), PlainText(EXCERPT_MAX + 10),
                         Paragraph(PlainText(EXCERPT_MAX + 1))}

\* Editor.tsx line 47, .replace(/<[^>]+>/g, " "): a "<", at least one character
\* that is not ">", then the first ">"
RECURSIVE Editor_ReplaceTags(_)
Editor_ReplaceTags(h) ==
  LET s == IndexOf(h, 1, {"<"}, TRUE)
      e == IndexOf(h, s + 2, {">"}, TRUE)
  IN IF s = 0 \/ s = Len(h) THEN h
     ELSE IF h[s + 1] = ">"
          THEN SubSeq(h, 1, s) \o Editor_ReplaceTags(SubSeq(h, s + 1, Len(h)))
     ELSE IF e = 0 THEN h
     ELSE SubSeq(h, 1, s - 1) \o <<" ">>
          \o Editor_ReplaceTags(SubSeq(h, e + 1, Len(h)))

\* Editor.tsx line 48, .replace(/&nbsp;/g, " ")
RECURSIVE Editor_ReplaceNbsp(_)
Editor_ReplaceNbsp(t) ==
  LET s == IndexOf(t, 1, {"&"}, TRUE)
      e == s + Len(Nbsp) - 1
  IN IF s = 0 THEN t
     ELSE IF e <= Len(t) /\ SubSeq(t, s, e) = Nbsp
          THEN SubSeq(t, 1, s - 1) \o <<" ">>
               \o Editor_ReplaceNbsp(SubSeq(t, e + 1, Len(t)))
     ELSE SubSeq(t, 1, s) \o Editor_ReplaceNbsp(SubSeq(t, s + 1, Len(t)))

\* Editor.tsx lines 46-50: .split(/\s+/).filter((w) => w.length > 0).length
Editor_wordCount(content) ==
  CountTokens(Editor_ReplaceNbsp(Editor_ReplaceTags(content)))

\* the page is open on the one draft of the collection and the content h has
\* just been typed into it: the save of it is pending
InitText ==
  /\ storage = [k \in Keys |-> IF k = DRAFTS_STORAGE_KEY
                               THEN JSON_stringify(<<CreatedDraft("k3f9x2a")>>)
                               ELSE Absent]
  /\ now = 0
  /\ draft = DEFAULT_DRAFT
  /\ captured = DEFAULT_DRAFT
  /\ isLoaded = FALSE
  /\ isDemoMode = FALSE
  /\ saveTimeoutRef = NullRef
  /\ timers = {}
  /\ demoParam = FALSE
  /\ hasInitialDraft = FALSE
  /\ raised = "none"
  /\ last = Ev("edit", FALSE)
  /\ burst = NoBurst
  /\ drafts = <<CreatedDraft("k3f9x2a")>> /\ draftsLoaded = TRUE /\ got = NotAsked
  /\ wfails = 0
  /\ \E h \in TextInputs :
       LET updated == [CreatedDraft("k3f9x2a") EXCEPT !.content = h] IN
       /\ pageDraft = Found(updated)
       /\ pageTimers = {[id |-> 1, left |-> PAGE_DEBOUNCE_MS, newDraft |-> updated]}
  /\ pageLoaded = TRUE
  /\ saveDebounceRef = 1

NextText ==
  \/ PageTick
  \/ PersistFires

SpecText == InitText /\ [][NextText]_vars

(***************************************************************************)
(* Properties of the multi-draft store.                                    *)
(***************************************************************************)
IsZeroed(d) ==
  /\ d.title = "" /\ d.content = EmptyContent /\ d.sources = << >>
  /\ d.wordCount = 0 /\ d.sourceCount = 0 /\ d.excerpt = << >>

CreatedAtHead ==
  /\ drafts # << >>
  /\ Head(drafts).id = last.ret
  /\ IsZeroed(Head(drafts))
  /\ Head(drafts).updatedAt = now

GetFindsZeroed ==
  LET g == getDraft(storage, last.ret, TRUE) IN
  /\ g.found
  /\ g.val.title = "" /\ g.val.wordCount = 0 /\ g.val.sourceCount = 0

Persisted ==
  /\ storage[DRAFTS_STORAGE_KEY].kind = "json"
  /\ JSON_parse(storage[DRAFTS_STORAGE_KEY]) = drafts

\* C9 as stated: right after createDraft the zeroed draft is at the head of the
\* list, the list is in storage, and getDraft of the returned id finds a draft
\* with title "", wordCount 0 and sourceCount 0.
C9_CreateThenGet ==
  last.op = "createDraft" => (CreatedAtHead /\ Persisted /\ GetFindsZeroed)

\* C9 amended: right after createDraft the zeroed draft is at the head of the
\* list; if the write went through, the list is in storage and getDraft of the
\* returned id finds a draft with title "", wordCount 0 and sourceCount 0.
C9_CreateThenGetIfWritten ==
  last.op = "createDraft" =>
     /\ CreatedAtHead
     /\ ~last.failed => (Persisted /\ GetFindsZeroed)

C9_Witness ==
  /\ last.op = "createDraft" /\ ~last.failed
  /\ Len(drafts) >= 2 /\ ~IsZeroed(drafts[2])
  /\ CreatedAtHead /\ Persisted /\ GetFindsZeroed

\* C10: no two entries of the draft collection have the same id.
C10_UniqueIds ==
  \A i, j \in 1..Len(drafts) : i # j => drafts[i].id # drafts[j].id

\* the entries of a list whose id is not the given one, in their order
Others(list, id) == LET Keep(d) == d.id # id IN SelectSeq(list, Keep)
HasId(list, id) == \E i \in 1..Len(list) : list[i].id = id
Stored == loadAll(storage, TRUE)
\* the step is one that the history records as the operation op on id
Recorded(op, id) == last'.op = op /\ last'.ret = id

\* C11 as stated: every deleteDraft(id) leaves the in-memory list and the
\* persisted collection without an entry of that id and with their other
\* entries as they were, in their order; it raises nothing; when no entry had
\* the id, the list and the persisted collection are what they were.
C11_DeleteRemoves ==
  [][\A id \in GeneratedIds : (Recorded("deleteDraft", id) /\ deleteDraft(id)) =>
        LET after == loadAll(storage', TRUE) IN
        /\ ~HasId(drafts', id) /\ Others(drafts', id) = Others(drafts, id)
        /\ ~HasId(after, id) /\ Others(after, id) = Others(Stored, id)
        /\ raised' = "none"
        /\ ~HasId(drafts, id) => (drafts' = drafts /\ after = Stored)]_vars

\* C11 amended: every deleteDraft(id) leaves the in-memory list without an
\* entry of that id and with its other entries as they were, in their order,
\* and unchanged when no entry had the id; it raises nothing; when its write
\* goes through, the persisted collection is the in-memory list, and when the
\* write fails, storage is what it was.
C11_DeleteRemovesIfWritten ==
  [][\A id \in GeneratedIds : (Recorded("deleteDraft", id) /\ deleteDraft(id)) =>
        /\ ~HasId(drafts', id) /\ Others(drafts', id) = Others(drafts, id)
        /\ raised' = "none"
        /\ ~HasId(drafts, id) => drafts' = drafts
        /\ IF last'.failed
           THEN storage' = storage
           ELSE loadAll(storage', TRUE) = drafts']_vars

C11_Witness ==
  /\ last.op = "deleteDraft" /\ last.hits >= 1 /\ ~last.failed
  /\ Len(drafts) = 1 /\ drafts[1].id # last.ret
  /\ Stored = drafts

SameText(e, d) ==
  /\ e.id = d.id /\ e.title = d.title
  /\ e.content = d.content /\ e.sources = d.sources

\* C13: every saveDraft(d) leaves the list as long as it was when an entry had
\* d's id and one longer otherwise; the list then holds an entry with d's id,
\* title, content and sources; the entries of other ids are what they were;
\* when the write goes through, the persisted collection is that list.
C13_SaveIsUpsert ==
  [][\A d \in SaveInputs : (Recorded("saveDraft", d.id) /\ Drafts_saveDraft(d)) =>
        /\ Len(drafts') = IF HasId(drafts, d.id) THEN Len(drafts) ELSE Len(drafts) + 1
        /\ \E i \in 1..Len(drafts') : SameText(drafts'[i], d)
        /\ Others(drafts', d.id) = Others(drafts, d.id)
        /\ ~last'.failed => loadAll(storage', TRUE) = drafts']_vars

C13_Witness ==
  /\ last.op = "saveDraft" /\ last.hits >= 1 /\ ~last.failed
  /\ Len(drafts) = 2 /\ Stored = drafts
  /\ \E i, j \in 1..2 :
       /\ drafts[i].id = last.ret /\ drafts[i].title = "Issue 1"
       /\ drafts[j].id # last.ret /\ IsZeroed(drafts[j])

IsSortedByRecent(list) ==
  \A i, j \in 1..Len(list) : i < j => list[i].updatedAt >= list[j].updatedAt

\* C14: in every reachable state the in-memory list and the persisted
\* collection are sorted by updatedAt, most recent first.
C14_SortedByRecent ==
  IsSortedByRecent(drafts) /\ IsSortedByRecent(Stored)

\* a draft saved at the later time stands before the draft of the earlier time
\* that used to stand before it
C14_Witness ==
  /\ last.op = "saveDraft" /\ last.hits >= 1 /\ ~last.failed
  /\ Len(drafts) = 2 /\ Stored = drafts
  /\ drafts[1].id = last.ret /\ drafts[2].id # last.ret
  /\ drafts[1].updatedAt > drafts[2].updatedAt
  /\ drafts[1].title = "Issue 1" /\ IsZeroed(drafts[2])

DerivedFromText(e) ==
  /\ e.wordCount = countWords(e.content)
  /\ e.sourceCount = Len(e.sources)
  /\ e.excerpt = makeExcerpt(e.content)

\* C15: in every reachable state each entry of the persisted collection and of
\* the in-memory list has the wordCount, sourceCount and excerpt that its
\* content and sources give; right after saveDraft(d) the list holds d with
\* these fields and with the time of the save, whatever d carried.
C15_DerivedNeverDrift ==
  /\ \A i \in 1..Len(Stored) : DerivedFromText(Stored[i])
  /\ \A i \in 1..Len(drafts) : DerivedFromText(drafts[i])
  /\ last.op = "saveDraft" =>
        \E i \in 1..Len(drafts) :
           /\ drafts[i].id = last.ret
           /\ drafts[i].updatedAt = now
           /\ DerivedFromText(drafts[i])

C15_Witness ==
  /\ last.op = "saveDraft" /\ ~last.failed /\ now = 1
  /\ \E i \in 1..Len(Stored) :
       /\ Stored[i].id = last.ret /\ Stored[i].content = HelloWorld
       /\ Stored[i].wordCount = 2 /\ Stored[i].sourceCount = 1
       /\ Len(Stored[i].excerpt) = 11 /\ Stored[i].updatedAt = 1

\* C16: what getDraft(id) returned is the first entry with that id of the
\* collection in storage, or not-found when storage holds no such entry, holds
\* nothing or something that does not parse, or could not be read; nothing is
\* raised.
C16_GetDraftReadsStorage ==
  got # NotAsked =>
     LET f == find(Stored, got.id) IN
     /\ got.res.found = (got.rok /\ f.found)
     /\ got.res.found => got.res.val = f.val
     /\ (storage[DRAFTS_STORAGE_KEY].kind # "json") => ~got.res.found
     /\ raised = "none"

\* storage holds the draft and the list in memory does not
C16_Witness ==
  /\ got # NotAsked /\ got.res.found
  /\ got.res.val.id = got.id
  /\ ~HasId(drafts, got.id)

(***************************************************************************)
(* Properties of the editor page over the multi-draft store.               *)
(***************************************************************************)
Gone(st, list, id) == ~HasId(loadAll(st, TRUE), id) /\ ~HasId(list, id)

\* C12: no operation of this specification creates a draft, so an id that
\* neither the persisted collection nor the in-memory list holds is the id of
\* a deleted draft, or of none.  Such an id stays out of both at every step,
\* the step of a save that was pending when the draft was deleted included.
C12_DeletedStaysGone ==
  [][\A id \in GeneratedIds :
        Gone(storage, drafts, id) => Gone(storage', drafts', id)]_vars

\* C17: every addSource(s) of the editor page leaves a source list one longer
\* than the list it started from, with s last and the earlier sources where
\* they were; the list it started from, which the store's entries may still
\* hold, is not changed.
C17_AddSourceAppends ==
  [][\A s \in SourcePool : Page_addSource(s) =>
        LET old == pageDraft.val.sources
            new == pageDraft'.val.sources IN
        /\ Len(new) = Len(old) + 1
        /\ new[Len(new)] = s
        /\ \A i \in 1..Len(old) : new[i] = old[i]
        /\ drafts' = drafts /\ storage' = storage]_vars

C17_Witness ==
  /\ last.op = "addSource" /\ last.ret = "b"
  /\ pageDraft.found /\ pageDraft.val.sources = <<SrcA, SrcB>>
  /\ \E t \in pageTimers : t.newDraft.sources = <<SrcA, SrcB>>
  /\ \E i \in 1..Len(drafts) : drafts[i].sources = <<SrcA>>

\* C18: every removeSource(id) of the editor page leaves a source list with no
\* source of that id, shorter by the number of sources that had it, and with
\* the other sources in the order they had; when no source had the id the
\* list is what it was; nothing is raised.
C18_RemoveSourceDropsAll ==
  [][\A id \in SourceIds : Page_removeSource(id) =>
        LET old == pageDraft.val.sources
            new == pageDraft'.val.sources IN
        /\ ~HasId(new, id)
        /\ Len(new) = Len(old) - Count(old, id)
        /\ new = Others(old, id)
        /\ ~HasId(old, id) => new = old
        /\ raised' = "none"]_vars

\* two sources of the same id dropped by one call
C18_Witness ==
  /\ last.op = "removeSource" /\ last.hits = 2
  /\ pageDraft.found /\ pageDraft.val.sources = << >>

Front(list) == SubSeq(list, 1, Len(list) - 1)
\* the list is some S with s added, the id of s being in no element of S
IsAdded(list, s) ==
  /\ list # << >>
  /\ list[Len(list)] = s
  /\ ~HasId(Front(list), s.id)

\* C19: every removeSource(s.id) of the editor page that starts from a list S
\* with s added, the id of s being new to S, leaves the list S.
C19_AddThenRemove ==
  [][\A s \in SourcePool : Page_removeSource(s.id) =>
        LET old == pageDraft.val.sources
            new == pageDraft'.val.sources IN
        IsAdded(old, s) => new = Front(old)]_vars

\* SrcB added to the list of SrcA and removed again
C19_Witness ==
  /\ last.op = "removeSource" /\ last.ret = "b" /\ last.hits = 1
  /\ pageDraft.found /\ pageDraft.val.sources = <<SrcA>>
  /\ \E t \in pageTimers : t.newDraft.sources = <<SrcA>>

UniqueIds(list) ==
  \A i, j \in 1..Len(list) : i # j => list[i].id # list[j].id

\* C20: in every reachable state no two sources of the draft the editor page
\* holds, nor of any draft of the collection, have the same id.
C20_UniqueSourceIds ==
  /\ pageDraft.found => UniqueIds(pageDraft.val.sources)
  /\ \A i \in 1..Len(drafts) : UniqueIds(drafts[i].sources)
  /\ \A i \in 1..Len(Stored) : UniqueIds(Stored[i].sources)
(***************************************************************************)
(* Properties of the content metrics.                                      *)
(***************************************************************************)
\* the character at i is part of a complete tag: a "<" at or before i has no
\* ">" between it and i, and a ">" at or after i closes it
InTag(h, i) ==
  LET before == {m \in 1..(i-1) : h[m] = ">"}
      p == IF before = {} THEN 0 ELSE CHOOSE m \in before : \A k \in before : k <= m
  IN /\ \E s \in (p+1)..i : h[s] = "<"
     /\ \E e \in i..Len(h) : h[e] = ">"

\* a character of a word: neither white space nor part of a tag
InWord(h, i) == ~IsSpace(h[i]) /\ ~InTag(h, i)

\* the words of h, one for every position where a word starts
Words(h) ==
  Cardinality({i \in 1..Len(h) : InWord(h, i) /\ (i = 1 \/ ~InWord(h, i - 1))})

OnlyTags(h) == \A i \in 1..Len(h) : InTag(h, i)

OnlySpaces(h) == \A i \in 1..Len(h) : IsSpace(h[i])

\* the content in the editor
Typed == pageDraft.val.content

\* C21: countWords(h) is the number of non-empty whitespace-delimited tokens
\* of h with every complete tag replaced by a space: it is never negative, 0
\* for the empty string, for whitespace only and for tags only, 2 for
\* "<p>Hello world</p>"; the wordCount of every stored draft is that number
C21_CountWords ==
  /\ countWords(Typed) = Words(Typed)
  /\ countWords(Typed) >= 0
  /\ OnlySpaces(Typed) => countWords(Typed) = 0
  /\ OnlyTags(Typed) => countWords(Typed) = 0
  /\ countWords(HelloWorld) = 2
  /\ \A i \in 1..Len(drafts) :
       drafts[i].wordCount = Words(drafts[i].content)

\* "<p>Hello world</p>" was typed and saved: the stored draft counts 2 words
C21_Witness ==
  /\ last.op = "saveDraft" /\ pageTimers = {}
  /\ drafts[1].content = HelloWorld /\ drafts[1].wordCount = 2

\* e is the excerpt of the stripped text t
IsExcerptOf(e, t) ==
  IF Len(t) <= EXCERPT_MAX
  THEN e = t /\ \A i \in 1..Len(e) : e[i] # Ellipsis
  ELSE /\ Len(e) = EXCERPT_MAX + 1
       /\ \A i \in 1..EXCERPT_MAX : e[i] = t[i]
       /\ e[EXCERPT_MAX + 1] = Ellipsis
       /\ Cardinality({i \in 1..Len(e) : e[i] = Ellipsis}) = 1

\* C22: a stripped text of at most 80 characters is its own excerpt, with no
\* ellipsis; of a longer one the excerpt is the first 80 characters and one
\* ellipsis, 81 characters in all; the excerpt of every stored draft is that
C22_Excerpt ==
  /\ IsExcerptOf(makeExcerpt(Typed), stripHtml(Typed))
  /\ \A i \in 1..Len(drafts) :
       IsExcerptOf(drafts[i].excerpt, stripHtml(drafts[i].content))

\* 90 plain characters were typed and saved: the stored excerpt has 81, the
\* last of them the ellipsis
C22_Witness ==
  /\ last.op = "saveDraft" /\ ~last.failed
  /\ drafts[1].content = PlainText(EXCERPT_MAX + 10)
  /\ Len(drafts[1].excerpt) = EXCERPT_MAX + 1
  /\ drafts[1].excerpt[EXCERPT_MAX + 1] = Ellipsis

\* C30: the word count the editor shows for a content and the wordCount the
\* store derives from the same content are the same number
C30_EditorCountAgrees ==
  \A i \in 1..Len(drafts) :
    drafts[i].wordCount = Editor_wordCount(drafts[i].content)

(***************************************************************************)
(* Further properties of the single-draft store.                           *)
(***************************************************************************)
\* C23: at most one debounced write is pending per store, in every state: it
\* is the one the store's timer reference names and it carries the draft of
\* the latest mutation, so the write of an earlier mutation cannot fire after
\* a later one was made
C23_OnePendingWrite ==
  /\ Cardinality(timers) <= 1
  /\ \A t \in timers : t.id = saveTimeoutRef /\ t.newDraft = burst.afterLast
  /\ Cardinality(pageTimers) <= 1
  /\ \A t \in pageTimers : t.id = saveDebounceRef /\ Found(t.newDraft) = pageDraft

\* a mutation made while the write of an earlier one was pending:
\* one write is pending, with the full delay ahead of it
C23_Witness ==
  /\ last.op = "mutate" /\ burst.muts >= 2 /\ burst.writes = 0
  /\ \E t \in timers : timers = {t} /\ t.left = DEBOUNCE_MS /\ t.newDraft = draft

\* C24: every mutation is applied to the draft as it stands, whether or not
\* the component rendered since the mutation before it
C24_MutationsCumulative ==
  [][/\ \A t \in Titles :
          updateTitle(t) => draft' = [draft EXCEPT !.title = t]
     /\ \A c \in Contents :
          updateContent(c) => draft' = [draft EXCEPT !.content = c]
     /\ \A s \in SourcePool :
          addSource(s) => draft' = [draft EXCEPT !.sources = Append(draft.sources, s)]
     /\ \A id \in SourceIds :
          removeSource(id) =>
            LET Keep(s) == s.id # id IN
            draft' = [draft EXCEPT !.sources = SelectSeq(draft.sources, Keep)]]_vars

\* C25: a mutation and the debounced write leave the demo flag as it was; the
\* flag goes on only in the load effect, and off only in dismissDemo or when
\* the page is left
C25_EditsKeepDemoFlag ==
  [][/\ last'.op \in {"mutate", "fire"} => isDemoMode' = isDemoMode
     /\ (~isDemoMode /\ isDemoMode') => (~isLoaded /\ last'.op = "load")
     /\ (isDemoMode /\ ~isDemoMode') => last'.op \in {"dismissDemo", "reload"}]_vars

\* the demo draft was edited and the edit written, the flag still on
C25_Witness ==
  /\ isDemoMode /\ last.op = "fire" /\ ~last.failed
  /\ burst.muts >= 1 /\ draft # DEMO_DRAFT
  /\ storage[STORAGE_KEY] = JSON_stringify(draft)

\* C26: after dismissDemo, until a mutation is made, no step puts anything
\* under the single-draft key
C26_DismissDemoDurable ==
  [][last.op = "dismissDemo" => getItemIsNull(storage', STORAGE_KEY)]_vars

\* the key holds nothing or the empty draft, and so does every pending write
ClearedForGood ==
  /\ \/ getItemIsNull(storage, STORAGE_KEY)
     \/ storage[STORAGE_KEY] = JSON_stringify(DEFAULT_DRAFT)
  /\ \A t \in timers : t.newDraft = DEFAULT_DRAFT

\* C27: clearDraft leaves the empty draft in memory, the key absent and no
\* pending write but that of the empty draft; from then on, until a mutation
\* is made, the key is absent or holds the empty draft
C27_ClearDraftDurable ==
  [][/\ last'.op = "clearDraft" =>
          /\ draft' = DEFAULT_DRAFT
          /\ Cardinality(timers') <= 1
          /\ ClearedForGood'
     /\ (ClearedForGood /\ last'.op # "mutate") => ClearedForGood']_vars

\* an edit was pending when clearDraft was called; the write that fired
\* afterwards put the empty draft under the key
C27_Witness ==
  /\ last.op = "fire" /\ ~last.failed /\ timers = {}
  /\ burst.muts >= 2 /\ burst.afterLast = DEFAULT_DRAFT
  /\ draft = DEFAULT_DRAFT /\ captured # DEFAULT_DRAFT
  /\ storage[STORAGE_KEY] = JSON_stringify(DEFAULT_DRAFT)

\* the visited marker is in storage
Visited == ~getItemIsNull(storage, VISITED_KEY)
\* the step is an activation: the load effect runs
LoadStep == ~isLoaded /\ raised = "none" /\ last'.op = "load"

C29_StorageMirrorsList ==
  (wfails = 0 /\ last.op \in {"createDraft", "deleteDraft", "saveDraft"}) =>
     /\ Persisted
     /\ \A id \in GeneratedIds :
          LET g == getDraft(storage, id, TRUE) IN
          /\ g.found = HasId(drafts, id)
          /\ g.found => g.val = find(drafts, id).val
     /\ (got # NotAsked /\ got.rok) => got.res.found = HasId(drafts, got.id)

\* two drafts are in the list, the second one just saved with a text;
\* getDraft of its id returned it from storage
C29_Witness ==
  /\ wfails = 0 /\ last.op = "saveDraft" /\ Len(drafts) = 2 /\ Persisted
  /\ got # NotAsked /\ got.rok /\ got.id = last.ret
  /\ got.res.found /\ got.res.val.wordCount = 2
  /\ got.res.val = find(drafts, got.id).val

=============================================================================
